---------------------------- MODULE Spec2Model ----------------------------
(***************************************************************************)
(* Distributed bitonic sort (src/MPI/bitonicMPI_fixed.c).                  *)
(*                                                                         *)
(* C arrays are modelled as sequences: arr[i] in the source is arr[i+1]    *)
(* here.  An int is a 32-bit two's complement integer; the only operation  *)
(* of the program that can leave the range is the left shift by one, which *)
(* is modelled with wrap-around (Shl1).  Allocation is assumed to succeed. *)
(***************************************************************************)
EXTENDS Integers, Sequences, FiniteSets, Bags, TLC

(***************************************************************************)
(* Program constants                                                       *)
(***************************************************************************)
INT_MAX == 2147483647

INT_MIN == -INT_MAX - 1

\* 2^30: the largest power of two an int holds
TopBit == 1073741824

(***************************************************************************)
(* Bounds of the model                                                     *)
(***************************************************************************)
\* process counts 1..MaxSize (MPI_Comm_size)
MaxSize == 4

\* requested element counts 1..MaxN of the network
MaxN == 4

\* requested element counts 1..MaxLiveN where the liveness of the network is
\* checked (the control flow of the network does not read the data)
MaxLiveN == 1

\* input values 0..MaxVal (the source draws rand() % 1000000)
MaxVal == 1

\* partition lengths 1..MaxLen of the stand-alone merge
MaxLen == 3

\* values 0..MaxMergeVal of the stand-alone merge
MaxMergeVal == 2

\* element counts 1..MaxSizerN of the stand-alone sizer (plus the values
\* around 2^30 and INT_MAX)
MaxSizerN == 33

\* process counts 2^0..2^MaxSizerLog of the stand-alone sizer (plus 2^30)
MaxSizerLog == 6

\* process counts 2^0..2^MaxWireLog of the network on partitions of one element
MaxWireLog == 3

\* requested element counts 1..MaxExtraN of src/Extra/bitonicMPI.c
MaxExtraN == 2

\* array lengths of the stand-alone local sort: the powers of two up to MaxSortLen
MaxSortLen == 8

\* values 0..MaxSortVal of the stand-alone local sort
MaxSortVal == 1

\* the array of the parallel loop has MaxForLen elements
MaxForLen == 4

\* values 0..MaxForVal of the array of the parallel loop
MaxForVal == 1

\* teams of 1..MaxThreads threads (omp_get_max_threads)
MaxThreads == 2

\* the OpenMP sort is run on arrays of 1, 2, 4, ... up to MaxTaskLen elements
MaxTaskLen == 4

\* values 0..MaxTaskVal of the array of the OpenMP sort
MaxTaskVal == 1

\* the thresholds of the task and loop tests are 0..MaxCutoff, or the code's
MaxCutoff == 1

\* if (k > 2048) of bitonicOmp02.c
TaskCutoff == 2048

\* if(k > 1000) of bitonicOmp02.c
LoopCutoff == 1000

\* MaxPhaseN elements are requested in the runs with longer partitions
MaxPhaseN == 5

\* array lengths 1..MaxVerLen of the stand-alone verify_sorted
MaxVerLen == 4

\* values 0..MaxVerVal of the stand-alone verify_sorted (plus INT_MAX)
MaxVerVal == 1

(***************************************************************************)
(* int arithmetic                                                          *)
(***************************************************************************)
\* x << 1 on a 32-bit int, wrapping modulo 2^32
Shl1(x) ==
    IF x >= TopBit THEN (x - TopBit) + (x - TopBit) + INT_MIN
    ELSE IF x < -TopBit THEN (x - INT_MIN) + (x - INT_MIN)
    ELSE x + x

\* x >> 1 (arithmetic shift: floor division)
Shr1(x) == x \div 2

RECURSIVE BitAnd(_, _)
\* x & y for non-negative x, y
BitAnd(x, y) ==
    IF x = 0 \/ y = 0 THEN 0
    ELSE (IF x % 2 = 1 /\ y % 2 = 1 THEN 1 ELSE 0) + 2 * BitAnd(x \div 2, y \div 2)

RECURSIVE BitXor(_, _)
\* x ^ y for non-negative x, y
BitXor(x, y) ==
    IF x = 0 THEN y
    ELSE IF y = 0 THEN x
    ELSE (IF x % 2 = y % 2 THEN 0 ELSE 1) + 2 * BitXor(x \div 2, y \div 2)

\* is_power_of_two(x)
is_power_of_two(x) == x > 0 /\ BitAnd(x, x - 1) = 0

\* variant: the loop runs while p <= n
NptCond_le(p, n) == p <= n

\* the loop test p < n of next_power_of_two
NptCond(p, n) == p < n

RECURSIVE NptLoop(_, _)
\* while (p < n) p <<= 1; return p;
\* (v ranges over the one value of p << 1, computed once per iteration)
NptLoop(p, n) ==
    IF NptCond(p, n)
    THEN CHOOSE res \in {NptLoop(v, n) : v \in {Shl1(p)}} : TRUE
    ELSE p

\* next_power_of_two(n)
next_power_of_two(n) == IF n <= 0 THEN 1 ELSE NptLoop(1, n)

RECURSIVE PadLoop(_, _)
\* while (N % size != 0) N <<= 1;   (TLA+ % and C % agree on "is zero")
\* (v ranges over the one value of N << 1, computed once per iteration)
PadLoop(NN, sz) ==
    IF NN % sz # 0
    THEN CHOOSE res \in {PadLoop(v, sz) : v \in {Shl1(NN)}} : TRUE
    ELSE NN

(***************************************************************************)
(* Local sort                                                              *)
(***************************************************************************)
\* swap_int(&arr[x], &arr[y]) with 0-based x, y
swap_int(arr, x, y) ==
    [arr EXCEPT ![x + 1] = arr[y + 1], ![y + 1] = arr[x + 1]]

\* one iteration of the for loop of bitonic_compare_and_swap
CasStep(arr, i, k, dir) ==
    IF dir # 0
    THEN (IF arr[i + 1] > arr[i + k + 1] THEN swap_int(arr, i, i + k) ELSE arr)
    ELSE (IF arr[i + 1] < arr[i + k + 1] THEN swap_int(arr, i, i + k) ELSE arr)

RECURSIVE CasLoop_le(_, _, _, _, _)
\* variant: the loop runs while i <= low + k
CasLoop_le(arr, i, low, k, dir) ==
    IF i <= low + k
    THEN (IF i + k < Len(arr)
          THEN CasLoop_le(CasStep(arr, i, k, dir), i + 1, low, k, dir)
          ELSE arr[i + k + 1])
    ELSE arr

RECURSIVE CasLoop(_, _, _, _, _)
\* for (int i = low; i < low + k; ++i), from index i on.  arr[i + k] has to
\* lie in the array: outside it the evaluation stops with an error
CasLoop(arr, i, low, k, dir) ==
    IF i < low + k
    THEN (IF i + k < Len(arr)
          THEN CasLoop(CasStep(arr, i, k, dir), i + 1, low, k, dir)
          ELSE arr[i + k + 1])
    ELSE arr

bitonic_compare_and_swap(arr, low, k, dir) == CasLoop(arr, low, low, k, dir)

RECURSIVE bitonic_merge_recursive(_, _, _, _)
bitonic_merge_recursive(arr, low, cnt, dir) ==
    IF cnt <= 1 THEN arr
    ELSE LET k  == cnt \div 2
             a1 == bitonic_compare_and_swap(arr, low, k, dir)
             a2 == bitonic_merge_recursive(a1, low, k, dir)
         IN  bitonic_merge_recursive(a2, low + k, k, dir)

RECURSIVE bitonic_sort_same_dir(_, _, _, _)
\* variant: the second half is sorted ascending like the first
bitonic_sort_same_dir(arr, low, cnt, dir) ==
    IF cnt <= 1 THEN arr
    ELSE LET k  == cnt \div 2
             a1 == bitonic_sort_same_dir(arr, low, k, 1)
             a2 == bitonic_sort_same_dir(a1, low + k, k, 1)
         IN  bitonic_merge_recursive(a2, low, cnt, dir)

RECURSIVE bitonic_sort_recursive(_, _, _, _)
bitonic_sort_recursive(arr, low, cnt, dir) ==
    IF cnt <= 1 THEN arr
    ELSE LET k  == cnt \div 2
             a1 == bitonic_sort_recursive(arr, low, k, 1)
             a2 == bitonic_sort_recursive(a1, low + k, k, 0)
         IN  bitonic_merge_recursive(a2, low, cnt, dir)

\* the indices the loop of bitonic_compare_and_swap reads or writes:
\* arr[i] and arr[i + k] for low <= i < low + k
CasTouched(low, k) == UNION {{i, i + k} : i \in low..(low + k - 1)}

RECURSIVE MergeTouched(_, _)
\* the indices bitonic_merge_recursive(arr, low, cnt, dir) reads or writes
MergeTouched(low, cnt) ==
    IF cnt <= 1 THEN {}
    ELSE LET k == cnt \div 2
         IN  CasTouched(low, k) \cup MergeTouched(low, k) \cup MergeTouched(low + k, k)

RECURSIVE SortTouched(_, _)
\* the indices bitonic_sort_recursive(arr, low, cnt, dir) reads or writes
SortTouched(low, cnt) ==
    IF cnt <= 1 THEN {}
    ELSE LET k == cnt \div 2
         IN  SortTouched(low, k) \cup SortTouched(low + k, k) \cup MergeTouched(low, cnt)

(***************************************************************************)
(* Pairwise merge-select                                                   *)
(***************************************************************************)
RECURSIVE MergeBoth_b_first(_, _, _, _, _, _)
\* variant: the comparison is a[i] >= b[j]
MergeBoth_b_first(a, b, len, i, j, tmp) ==
    IF i < len /\ j < len
    THEN IF a[i + 1] >= b[j + 1]
         THEN MergeBoth_b_first(a, b, len, i + 1, j, Append(tmp, a[i + 1]))
         ELSE MergeBoth_b_first(a, b, len, i, j + 1, Append(tmp, b[j + 1]))
    ELSE [i |-> i, j |-> j, tmp |-> tmp]

RECURSIVE MergeBoth(_, _, _, _, _, _)
\* while (i < len && j < len) ...: the two-pointer loop; i, j are 0-based
MergeBoth(a, b, len, i, j, tmp) ==
    IF i < len /\ j < len
    THEN IF a[i + 1] <= b[j + 1]
         THEN MergeBoth(a, b, len, i + 1, j, Append(tmp, a[i + 1]))
         ELSE MergeBoth(a, b, len, i, j + 1, Append(tmp, b[j + 1]))
    ELSE [i |-> i, j |-> j, tmp |-> tmp]

RECURSIVE MergeRest(_, _, _, _)
\* while (i < len) tmp[t++] = src[i++];
MergeRest(src, len, i, tmp) ==
    IF i < len THEN MergeRest(src, len, i + 1, Append(tmp, src[i + 1])) ELSE tmp

\* tmp after the three loops of merge_and_select
MergeTmp(a, b, len) ==
    LET s  == MergeBoth(a, b, len, 0, 0, << >>)
        t1 == MergeRest(a, len, s.i, s.tmp)
    IN  MergeRest(b, len, s.j, t1)

\* variant: the high half is copied from tmp + len - 1
merge_and_select_off_by_one(a, b, len, keep_low) ==
    LET tmp == MergeTmp(a, b, len)
    IN  IF keep_low # 0 THEN SubSeq(tmp, 1, len) ELSE SubSeq(tmp, len, 2 * len - 1)

\* memcpy(dst, tmp, len) or memcpy(dst, tmp + len, len): the value left in dst
merge_and_select(a, b, len, keep_low) ==
    LET tmp == MergeTmp(a, b, len)
    IN  IF keep_low # 0 THEN SubSeq(tmp, 1, len) ELSE SubSeq(tmp, len + 1, 2 * len)

RECURSIVE VerifyLoop_strict(_, _, _)
\* variant: the test is global[i-1] >= global[i]
VerifyLoop_strict(global, n, i) ==
    IF i < n
    THEN (IF global[i] >= global[i + 1] THEN 0 ELSE VerifyLoop_strict(global, n, i + 1))
    ELSE 1

RECURSIVE VerifyLoop(_, _, _)
\* for (i = 1; i < n; ++i) if (global[i-1] > global[i]) return 0; return 1;
VerifyLoop(global, n, i) ==
    IF i < n
    THEN (IF global[i] > global[i + 1] THEN 0 ELSE VerifyLoop(global, n, i + 1))
    ELSE 1

verify_sorted(global, n) == VerifyLoop(global, n, 1)

(***************************************************************************)
(* Reference notions used by the properties                                *)
(***************************************************************************)
IsAscending(s) == \A i \in 1..(Len(s) - 1) : s[i] <= s[i + 1]

RECURSIVE InsertAsc(_, _)
InsertAsc(s, x) ==
    IF s = << >> THEN <<x>>
    ELSE IF x <= Head(s) THEN <<x>> \o s
    ELSE <<Head(s)>> \o InsertAsc(Tail(s), x)

RECURSIVE SortAsc(_)
\* the ascending arrangement of the values of s
SortAsc(s) == IF s = << >> THEN << >> ELSE InsertAsc(SortAsc(Tail(s)), Head(s))

\* the multiset of the values of s
BagOf(s) ==
    LET vals == {s[i] : i \in 1..Len(s)}
    IN  [v \in vals |-> Cardinality({i \in 1..Len(s) : s[i] = v})]

IsPow2(x) == \E e \in 0..30 : x = 2^e

RECURSIVE Log2(_)
Log2(x) == IF x <= 1 THEN 0 ELSE 1 + Log2(x \div 2)

\* the ascending sequences of length l over the values vs
AscSeqs(l, vs) == {s \in [1..l -> vs] : IsAscending(s)}

(***************************************************************************)
(* State                                                                   *)
(***************************************************************************)
VARIABLES
    \* stand-alone merge_and_select: its arguments and the dst of each call
    ma, mb, mlen, mdst,
    \* stand-alone partition sizer: position, arguments n and size, and the
    \* locals p (next_power_of_two), N and local_size (main)
    spc, sn, ssize, p, sN, slocal,
    \* the MPI program: the communicator size, the requested n and the values
    \* rand() delivers at rank 0
    size, n, input,
    \* per process: position, and the locals N, local_size, k, j of main
    pc, N, local_size, k, j,
    \* the buffers: global_arr of rank 0; local, recv_buf, new_local per process;
    \* allocated is the set of <<rank, buffer name>> malloc has returned
    global_arr, local, recv_buf, new_local, allocated,
    \* the MPI runtime: point-to-point messages in flight per <<source, dest>>,
    \* the chunks MPI_Scatter has sent, the chunks MPI_Gather has collected,
    \* the number of MPI_Barrier calls each process has entered, MPI_Abort
    chan, scat, gath, arrived, aborted,
    \* what rank 0 prints: "none", "SORTED" or "NOT SORTED"
    result,
    \* history: the number of MPI_Sendrecv calls each process has made, and its
    \* partition after the local sort and after each completed round
    rounds, hist,
    \* the network on partitions of one element, all ranks round by round:
    \* position, process count, the loop variables k and j, the element of each
    \* rank, the partner and keep_low each rank computes in the round, and the
    \* wires of the textbook network on the same input
    wpc, wsize, wk, wj, wires, wpartner, wkeep, wref,
    \* src/Extra/bitonicMPI.c (which uses the variables of the MPI program, N
    \* being its total_size and recv_buf its recv_arr): rank 0 has sent n in
    \* MPI_Bcast; history: some MPI_Sendrecv has delivered a partition that is
    \* not the one its sender held after its previous round
    bcast, stale,
    \* stand-alone verify_sorted: position, the arguments global and n, and the
    \* value returned
    vpc, vglobal, vn, vres,
    \* stand-alone bitonic_sort_recursive(arr, 0, m, dir): position, the memory
    \* (the m elements of arr and the cell behind them), m, dir, the memory on
    \* return, and the set of indices the call has read or written
    bpc, bmem, bm, bdir, bres, btouched,
    \* the parallel loop of the OpenMP bitonic_merge: the position of each thread
    \* of the team (its iteration i and its statement, or "done"), the array, the
    \* array when the loop started, low, k, dir, the number of threads, the local
    \* t of swap_int of each thread, and the indices each iteration has accessed
    fpc, fmem, fmem0, flow, fk, fdir, fthreads, ftmp, facc,
    \* the OpenMP sort as a tree of calls: the calls made so far by their place in
    \* the tree (function, arguments, position), the indices each call has
    \* accessed itself, the array, the array at the start, the construct used
    \* ("sections" or "tasks"), and the thresholds of the task and loop tests
    tframes, tacc, tmem, tmem0, tmode, tcut, tloop

mergeVars == <<ma, mb, mlen, mdst>>

sizerVars == <<spc, sn, ssize, p, sN, slocal>>

netVars == <<size, n, input, pc, N, local_size, k, j, global_arr, local, recv_buf,
             new_local, allocated, chan, scat, gath, arrived, aborted, result,
             rounds, hist>>

schedVars == <<wpc, wsize, wk, wj, wires, wpartner, wkeep, wref>>

extraVars == <<bcast, stale>>

verVars == <<vpc, vglobal, vn, vres>>

sortVars == <<bpc, bmem, bm, bdir, bres, btouched>>

forVars == <<fpc, fmem, fmem0, flow, fk, fdir, fthreads, ftmp, facc>>

taskVars == <<tframes, tacc, tmem, tmem0, tmode, tcut, tloop>>

extVars == <<schedVars, extraVars, verVars, sortVars, forVars, taskVars>>

vars == <<mergeVars, sizerVars, netVars, extVars>>

\* all variables but those of one part
schedRest == <<mergeVars, sizerVars, netVars, extraVars, verVars, sortVars, forVars, taskVars>>

extraRest == <<mergeVars, sizerVars, schedVars, verVars, sortVars, forVars, taskVars>>

verRest == <<mergeVars, sizerVars, netVars, schedVars, extraVars, sortVars, forVars, taskVars>>

sortRest == <<mergeVars, sizerVars, netVars, schedVars, extraVars, verVars, forVars, taskVars>>

forRest == <<mergeVars, sizerVars, netVars, schedVars, extraVars, verVars, sortVars, taskVars>>

taskRest == <<mergeVars, sizerVars, netVars, schedVars, extraVars, verVars, sortVars, forVars>>

NetIdle ==
    /\ size = 0 /\ n = 0 /\ input = << >> /\ pc = << >> /\ N = << >>
    /\ local_size = << >> /\ k = << >> /\ j = << >> /\ global_arr = << >>
    /\ local = << >> /\ recv_buf = << >> /\ new_local = << >> /\ allocated = {}
    /\ chan = << >> /\ scat = << >> /\ gath = << >> /\ arrived = << >>
    /\ aborted = FALSE /\ result = "none" /\ rounds = << >> /\ hist = << >>

MergeIdle == ma = << >> /\ mb = << >> /\ mlen = 0 /\ mdst = << >>

SizerIdle == spc = "off" /\ sn = 0 /\ ssize = 0 /\ p = 0 /\ sN = 0 /\ slocal = 0

SchedIdle ==
    /\ wpc = "off" /\ wsize = 0 /\ wk = 0 /\ wj = 0 /\ wires = << >>
    /\ wpartner = << >> /\ wkeep = << >> /\ wref = << >>

ExtraIdle == bcast = FALSE /\ stale = FALSE

VerIdle ==
    vpc = "off" /\ vglobal = << >> /\ vn = 0 /\ vres = 0

SortIdle ==
    /\ bpc = "off" /\ bmem = << >> /\ bm = 0 /\ bdir = 0 /\ bres = << >>
    /\ btouched = {}

ForIdle ==
    /\ fpc = << >> /\ fmem = << >> /\ fmem0 = << >> /\ flow = 0 /\ fk = 0
    /\ fdir = 0 /\ fthreads = 0 /\ ftmp = << >> /\ facc = << >>

TaskIdle ==
    /\ tframes = << >> /\ tacc = << >> /\ tmem = << >> /\ tmem0 = << >>
    /\ tmode = "none" /\ tcut = 0 /\ tloop = 0

ExtIdle == SchedIdle /\ ExtraIdle /\ VerIdle /\ SortIdle /\ ForIdle /\ TaskIdle

\* all variables but those of one part are idle
schedOthersIdle == MergeIdle /\ SizerIdle /\ NetIdle /\ ExtraIdle /\ VerIdle /\ SortIdle /\ ForIdle /\ TaskIdle

extraOthersIdle == MergeIdle /\ SizerIdle /\ SchedIdle /\ VerIdle /\ SortIdle /\ ForIdle /\ TaskIdle

verOthersIdle == MergeIdle /\ SizerIdle /\ NetIdle /\ SchedIdle /\ ExtraIdle /\ SortIdle /\ ForIdle /\ TaskIdle

sortOthersIdle == MergeIdle /\ SizerIdle /\ NetIdle /\ SchedIdle /\ ExtraIdle /\ VerIdle /\ ForIdle /\ TaskIdle

forOthersIdle == MergeIdle /\ SizerIdle /\ NetIdle /\ SchedIdle /\ ExtraIdle /\ VerIdle /\ SortIdle /\ TaskIdle

taskOthersIdle == MergeIdle /\ SizerIdle /\ NetIdle /\ SchedIdle /\ ExtraIdle /\ VerIdle /\ SortIdle /\ ForIdle

(***************************************************************************)
(* merge_and_select on its own                                             *)
(***************************************************************************)
MergeVals == 0..MaxMergeVal \cup {INT_MAX}

MergeInit ==
    /\ mlen \in 1..MaxLen
    /\ ma \in AscSeqs(mlen, MergeVals)
    /\ mb \in AscSeqs(mlen, MergeVals)
    /\ mdst = [kl \in {} |-> << >>]
    /\ SizerIdle
    /\ NetIdle
    /\ ExtIdle

\* one call merge_and_select(a, b, dst, len, keep_low)
MergeCall(keep_low) ==
    /\ mlen > 0
    /\ keep_low \notin DOMAIN mdst
    /\ mdst' = [kl \in DOMAIN mdst \cup {keep_low} |->
                   IF kl = keep_low THEN merge_and_select(ma, mb, mlen, keep_low)
                   ELSE mdst[kl]]
    /\ UNCHANGED <<ma, mb, mlen, sizerVars, netVars, extVars>>

MergeNext == \E keep_low \in {0, 1} : MergeCall(keep_low)

MergeSpec == MergeInit /\ [][MergeNext]_vars

(***************************************************************************)
(* The partition sizer on its own, one loop iteration per step             *)
(***************************************************************************)
SizerNs == 1..MaxSizerN \cup {TopBit - 1, TopBit, TopBit + 1, INT_MAX}

SizerSizes == {2^e : e \in 0..MaxSizerLog} \cup {TopBit}

SizerInit ==
    /\ spc = "call"
    /\ sn \in SizerNs
    /\ ssize \in SizerSizes
    /\ p = 0 /\ sN = 0 /\ slocal = 0
    /\ MergeIdle
    /\ NetIdle
    /\ ExtIdle

\* next_power_of_two: if (n <= 0) return 1; int p = 1;
NptEnter ==
    /\ spc = "call"
    /\ IF sn <= 0
       THEN sN' = 1 /\ spc' = "pad" /\ p' = p
       ELSE p' = 1 /\ spc' = "npt" /\ sN' = sN
    /\ UNCHANGED <<sn, ssize, slocal, mergeVars, netVars, extVars>>

\* while (p < n) p <<= 1;
NptIter ==
    /\ spc = "npt"
    /\ NptCond(p, sn)
    /\ p' = Shl1(p)
    /\ UNCHANGED <<spc, sn, ssize, sN, slocal, mergeVars, netVars, extVars>>

\* return p;  int N = next_power_of_two(n);
NptReturn ==
    /\ spc = "npt"
    /\ ~NptCond(p, sn)
    /\ sN' = p
    /\ spc' = "pad"
    /\ UNCHANGED <<sn, ssize, p, slocal, mergeVars, netVars, extVars>>

\* while (N % size != 0) N <<= 1;
PadIter ==
    /\ spc = "pad"
    /\ sN % ssize # 0
    /\ sN' = Shl1(sN)
    /\ UNCHANGED <<spc, sn, ssize, p, slocal, mergeVars, netVars, extVars>>

\* int local_size = N / size; if (local_size <= 0) MPI_Abort
PadDone ==
    /\ spc = "pad"
    /\ sN % ssize = 0
    /\ slocal' = sN \div ssize
    /\ spc' = IF sN \div ssize <= 0 THEN "abort" ELSE "sized"
    /\ UNCHANGED <<sn, ssize, p, sN, mergeVars, netVars, extVars>>

SizerNext == NptEnter \/ NptIter \/ NptReturn \/ PadIter \/ PadDone

SizerSpec == SizerInit /\ [][SizerNext]_vars

(***************************************************************************)
(* The MPI program (main), one process per rank                            *)
(***************************************************************************)
Ranks == 0..(size - 1)

\* the inputs of at most cnt values
Inputs(cnt) == UNION {[1..m -> 0..MaxVal] : m \in 1..cnt}

\* the state after MPI_Init and the reading of n, the values of rand() being
\* one of the sequences of inps
InitWith(inps) ==
    /\ size \in 1..MaxSize
    /\ input \in inps
    /\ n = Len(input)
    /\ pc = [r \in Ranks |-> "start"]
    /\ N = [r \in Ranks |-> 0]
    /\ local_size = [r \in Ranks |-> 0]
    /\ k = [r \in Ranks |-> 0]
    /\ j = [r \in Ranks |-> 0]
    /\ global_arr = << >>
    /\ local = [r \in Ranks |-> << >>]
    /\ recv_buf = [r \in Ranks |-> << >>]
    /\ new_local = [r \in Ranks |-> << >>]
    /\ allocated = {}
    /\ chan = [sd \in Ranks \X Ranks |-> << >>]
    /\ scat = [r \in Ranks |-> << >>]
    /\ gath = [r \in Ranks |-> << >>]
    /\ arrived = [r \in Ranks |-> 0]
    /\ aborted = FALSE
    /\ result = "none"
    /\ rounds = [r \in Ranks |-> 0]
    /\ hist = [r \in Ranks |-> << >>]
    /\ MergeIdle
    /\ SizerIdle
    /\ ExtIdle

\* the state after MPI_Init and the reading of n, for at most cnt values
InitUpTo(cnt) == InitWith(Inputs(cnt))

Init == InitUpTo(MaxN)

LiveInit == InitUpTo(MaxLiveN)

\* MPI_Abort(MPI_COMM_WORLD, 1): every process of the communicator is ended
MPI_Abort ==
    /\ aborted' = TRUE
    /\ pc' = [q \in Ranks |-> "aborted"]

\* variant: the process-count test comes after the partition is allocated
ConfigAbort_after_alloc(r) ==
    /\ pc[r] = "start"
    /\ ~is_power_of_two(size)
    /\ MPI_Abort
    /\ allocated' = allocated \cup {<<r, "local">>}
    /\ UNCHANGED <<size, n, input, N, local_size, k, j, global_arr, local, recv_buf,
                   new_local, chan, scat, gath, arrived, result, rounds, hist,
                   mergeVars, sizerVars, extVars>>

\* if (!is_power_of_two(size)) { ...; MPI_Abort(MPI_COMM_WORLD, 1); }
ConfigAbort(r) ==
    /\ pc[r] = "start"
    /\ ~is_power_of_two(size)
    /\ MPI_Abort
    /\ UNCHANGED <<size, n, input, N, local_size, k, j, global_arr, local, recv_buf,
                   new_local, allocated, chan, scat, gath, arrived, result, rounds,
                   hist, mergeVars, sizerVars, extVars>>

\* int N = next_power_of_two(n); while (N % size != 0) N <<= 1;
\* int local_size = N / size; if (local_size <= 0) MPI_Abort
ComputeSizes(r) ==
    /\ pc[r] = "start"
    /\ is_power_of_two(size)
    /\ LET NN == PadLoop(next_power_of_two(n), size)
       IN  /\ N' = [N EXCEPT ![r] = NN]
           /\ local_size' = [local_size EXCEPT ![r] = NN \div size]
           /\ IF NN \div size <= 0
              THEN MPI_Abort
              ELSE pc' = [pc EXCEPT ![r] = "alloc"] /\ aborted' = aborted
    /\ UNCHANGED <<size, n, input, k, j, global_arr, local, recv_buf, new_local,
                   allocated, chan, scat, gath, arrived, result, rounds, hist,
                   mergeVars, sizerVars, extVars>>

\* variant: the padding is 0
FillGlobal_zero(inp, cnt, total) ==
    [i \in 1..total |-> IF i <= cnt THEN inp[i] ELSE 0]

\* for (i = 0; i < n; ++i) global_arr[i] = rand() % 1000000;
\* for (i = n; i < N; ++i) global_arr[i] = INT_MAX;
FillGlobal(inp, cnt, total) ==
    [i \in 1..total |-> IF i <= cnt THEN inp[i] ELSE INT_MAX]

\* rank 0: global_arr = malloc(N), filled with the input and the padding;
\* every rank: local = malloc(local_size)
Allocate(r) ==
    /\ pc[r] = "alloc"
    /\ global_arr' = IF r = 0 THEN FillGlobal(input, n, N[r]) ELSE global_arr
    /\ allocated' = allocated \cup {<<r, "local">>}
                      \cup (IF r = 0 THEN {<<r, "global_arr">>} ELSE {})
    /\ pc' = [pc EXCEPT ![r] = "barrier_start"]
    /\ UNCHANGED <<size, n, input, N, local_size, k, j, local, recv_buf, new_local,
                   chan, scat, gath, arrived, aborted, result, rounds, hist,
                   mergeVars, sizerVars, extVars>>

\* MPI_Barrier: the call is entered
BarrierEnter(r) ==
    /\ pc[r] \in {"barrier_start", "barrier_round", "barrier_end"}
    /\ arrived' = [arrived EXCEPT ![r] = @ + 1]
    /\ pc' = [pc EXCEPT ![r] = CASE pc[r] = "barrier_start" -> "wait_start"
                                 [] pc[r] = "barrier_round" -> "wait_round"
                                 [] pc[r] = "barrier_end" -> "wait_end"]
    /\ UNCHANGED <<size, n, input, N, local_size, k, j, global_arr, local, recv_buf,
                   new_local, allocated, chan, scat, gath, aborted, result, rounds,
                   hist, mergeVars, sizerVars, extVars>>

\* variant: no barrier, the call returns at once
BarrierOpen_never_waits(r) == TRUE

\* MPI_Barrier returns once every process has entered it
BarrierOpen(r) == \A q \in Ranks : arrived[q] >= arrived[r]

RECURSIVE LoopK(_, _)
RECURSIVE LoopJ(_, _, _)
\* for (j = ...; j > 0; j >>= 1): the position <<k, j, pc>> reached from the
\* test j > 0; when it fails, k <<= 1 and the outer test follows
LoopJ(kk, jj, sz) ==
    IF jj > 0 THEN <<kk, jj, "sendrecv">> ELSE LoopK(Shl1(kk), sz)

\* variant: the outer test is k < size
LoopK_lt(kk, sz) ==
    IF kk < sz THEN LoopJ(kk, Shr1(kk), sz) ELSE <<kk, 0, "gather">>

\* for (k = ...; k <= size; k <<= 1): the position reached from the test
\* k <= size; when it holds, j = k >> 1 and the inner test follows
LoopK(kk, sz) ==
    IF kk <= sz THEN LoopJ(kk, Shr1(kk), sz) ELSE <<kk, 0, "gather">>

\* MPI_Barrier returns; after the barrier of a round, j >>= 1 and the loop tests
BarrierExit(r) ==
    /\ pc[r] \in {"wait_start", "wait_round", "wait_end"}
    /\ BarrierOpen(r)
    /\ CASE pc[r] = "wait_start" ->
              pc' = [pc EXCEPT ![r] = "scatter"] /\ UNCHANGED <<k, j>>
         [] pc[r] = "wait_round" ->
              LET nxt == LoopJ(k[r], Shr1(j[r]), size)
              IN  /\ k' = [k EXCEPT ![r] = nxt[1]]
                  /\ j' = [j EXCEPT ![r] = nxt[2]]
                  /\ pc' = [pc EXCEPT ![r] = nxt[3]]
         [] pc[r] = "wait_end" ->
              pc' = [pc EXCEPT ![r] = "finish"] /\ UNCHANGED <<k, j>>
    /\ UNCHANGED <<size, n, input, N, local_size, global_arr, local, recv_buf,
                   new_local, allocated, chan, scat, gath, arrived, aborted, result,
                   rounds, hist, mergeVars, sizerVars, extVars>>

\* chunk q (0-based) of local_size elements of an array
Chunk(arr, q, lsz) == SubSeq(arr, q * lsz + 1, (q + 1) * lsz)

\* MPI_Scatter(global_arr, local_size, ..., local, local_size, ..., 0, ...):
\* rank 0 sends chunk q to every rank q; every other rank waits for its chunk
Scatter(r) ==
    /\ pc[r] = "scatter"
    /\ IF r = 0
       THEN /\ scat' = [q \in Ranks |-> Chunk(global_arr, q, local_size[r])]
            /\ local' = [local EXCEPT ![r] = Chunk(global_arr, 0, local_size[r])]
       ELSE /\ scat[r] # << >>
            /\ local' = [local EXCEPT ![r] = scat[r]]
            /\ scat' = scat
    /\ pc' = [pc EXCEPT ![r] = "sort"]
    /\ UNCHANGED <<size, n, input, N, local_size, k, j, global_arr, recv_buf,
                   new_local, allocated, chan, gath, arrived, aborted, result,
                   rounds, hist, mergeVars, sizerVars, extVars>>

\* variant: the local sort is left out
LocalSort_absent(r) ==
    /\ pc[r] = "sort"
    /\ LET nxt == LoopK(2, size)
       IN  /\ hist' = [hist EXCEPT ![r] = <<local[r]>>]
           /\ k' = [k EXCEPT ![r] = nxt[1]]
           /\ j' = [j EXCEPT ![r] = nxt[2]]
           /\ pc' = [pc EXCEPT ![r] = nxt[3]]
    /\ allocated' = allocated \cup {<<r, "recv_buf">>, <<r, "new_local">>}
    /\ UNCHANGED <<size, n, input, N, local_size, global_arr, local, recv_buf,
                   new_local, chan, scat, gath, arrived, aborted, result, rounds,
                   mergeVars, sizerVars, extVars>>

\* bitonic_sort_recursive(local, 0, local_size, 1); recv_buf and new_local are
\* allocated; the loops are entered with k = 2 and the test k <= size
LocalSort(r) ==
    /\ pc[r] = "sort"
    /\ LET sorted == bitonic_sort_recursive(local[r], 0, local_size[r], 1)
           nxt == LoopK(2, size)
       IN  /\ local' = [local EXCEPT ![r] = sorted]
           /\ hist' = [hist EXCEPT ![r] = <<sorted>>]
           /\ k' = [k EXCEPT ![r] = nxt[1]]
           /\ j' = [j EXCEPT ![r] = nxt[2]]
           /\ pc' = [pc EXCEPT ![r] = nxt[3]]
    /\ allocated' = allocated \cup {<<r, "recv_buf">>, <<r, "new_local">>}
    /\ UNCHANGED <<size, n, input, N, local_size, global_arr, recv_buf, new_local,
                   chan, scat, gath, arrived, aborted, result, rounds, mergeVars,
                   sizerVars, extVars>>

\* variant: the partner is rank ^ k
Partner_xor_k(r) == BitXor(r, k[r])

\* int partner = rank ^ j;
Partner(r) == BitXor(r, j[r])

\* variant: the lower partner of an ascending block keeps the high half
KeepLow_inverted(r, kk, jj) ==
    LET ascending_block == IF BitAnd(r, kk) = 0 THEN 1 ELSE 0
        lower_partner == IF BitAnd(r, jj) = 0 THEN 1 ELSE 0
    IN  IF ascending_block # 0 THEN 1 - lower_partner ELSE lower_partner

\* variant: every process keeps the low half
KeepLow_always_low(r, kk, jj) == 1

\* variant: keep_low = lower_partner, whatever the block
KeepLow_no_flip(r, kk, jj) == IF BitAnd(r, jj) = 0 THEN 1 ELSE 0

\* variant: the block of a rank is taken from 2*j instead of k
KeepLow_block_of_2j(r, kk, jj) ==
    LET ascending_block == IF BitAnd(r, 2 * jj) = 0 THEN 1 ELSE 0
        lower_partner == IF BitAnd(r, jj) = 0 THEN 1 ELSE 0
    IN  IF ascending_block # 0 THEN lower_partner ELSE 1 - lower_partner

\* ascending_block = ((rank & k) == 0); lower_partner = ((rank & j) == 0);
\* keep_low = ascending_block ? lower_partner : (1 - lower_partner)
KeepLow(r, kk, jj) ==
    LET ascending_block == IF BitAnd(r, kk) = 0 THEN 1 ELSE 0
        lower_partner == IF BitAnd(r, jj) = 0 THEN 1 ELSE 0
    IN  IF ascending_block # 0 THEN lower_partner ELSE 1 - lower_partner

\* MPI_Sendrecv is called: local is sent to partner (a rank outside the
\* communicator is an MPI error, which is fatal)
SendrecvCall(r) ==
    /\ pc[r] = "sendrecv"
    /\ IF Partner(r) \in Ranks
       THEN /\ chan' = [chan EXCEPT ![<<r, Partner(r)>>] = Append(@, local[r])]
            /\ rounds' = [rounds EXCEPT ![r] = @ + 1]
            /\ pc' = [pc EXCEPT ![r] = "sendrecv_wait"]
            /\ aborted' = aborted
       ELSE /\ MPI_Abort
            /\ UNCHANGED <<chan, rounds>>
    /\ UNCHANGED <<size, n, input, N, local_size, k, j, global_arr, local, recv_buf,
                   new_local, allocated, scat, gath, arrived, result, hist,
                   mergeVars, sizerVars, extVars>>

\* MPI_Sendrecv returns: the oldest message of partner is in recv_buf
SendrecvReturn(r) ==
    /\ pc[r] = "sendrecv_wait"
    /\ chan[<<Partner(r), r>>] # << >>
    /\ recv_buf' = [recv_buf EXCEPT ![r] = Head(chan[<<Partner(r), r>>])]
    /\ chan' = [chan EXCEPT ![<<Partner(r), r>>] = Tail(@)]
    /\ pc' = [pc EXCEPT ![r] = "merge"]
    /\ UNCHANGED <<size, n, input, N, local_size, k, j, global_arr, local, new_local,
                   allocated, scat, gath, arrived, aborted, result, rounds, hist,
                   mergeVars, sizerVars, extVars>>

\* merge_and_select(local, recv_buf, new_local, local_size, keep_low);
\* memcpy(local, new_local, local_size)
MergeSelect(r) ==
    /\ pc[r] = "merge"
    /\ LET res == merge_and_select(local[r], recv_buf[r], local_size[r],
                                   KeepLow(r, k[r], j[r]))
       IN  /\ new_local' = [new_local EXCEPT ![r] = res]
           /\ local' = [local EXCEPT ![r] = res]
           /\ hist' = [hist EXCEPT ![r] = Append(@, res)]
    /\ pc' = [pc EXCEPT ![r] = "barrier_round"]
    /\ UNCHANGED <<size, n, input, N, local_size, k, j, global_arr, recv_buf,
                   allocated, chan, scat, gath, arrived, aborted, result, rounds,
                   mergeVars, sizerVars, extVars>>

RECURSIVE Concat(_, _, _)
\* the chunks of ranks q..sz-1 in rank order
Concat(chunks, q, sz) ==
    IF q < sz THEN chunks[q] \o Concat(chunks, q + 1, sz) ELSE << >>

\* MPI_Gather(local, local_size, ..., global_arr, local_size, ..., 0, ...):
\* every other rank sends its partition; rank 0 returns with all chunks placed
Gather(r) ==
    /\ pc[r] = "gather"
    /\ IF r = 0
       THEN /\ \A q \in Ranks \ {0} : gath[q] # << >>
            /\ global_arr' = Concat([gath EXCEPT ![0] = local[0]], 0, size)
            /\ gath' = [gath EXCEPT ![0] = local[0]]
       ELSE /\ gath' = [gath EXCEPT ![r] = local[r]]
            /\ global_arr' = global_arr
    /\ pc' = [pc EXCEPT ![r] = "barrier_end"]
    /\ UNCHANGED <<size, n, input, N, local_size, k, j, local, recv_buf, new_local,
                   allocated, chan, scat, arrived, aborted, result, rounds, hist,
                   mergeVars, sizerVars, extVars>>

\* rank 0: ok = verify_sorted(global_arr, n), "SORTED" or "NOT SORTED" is
\* printed; the buffers are freed; MPI_Finalize
Finish(r) ==
    /\ pc[r] = "finish"
    /\ result' = IF r = 0
                 THEN (IF verify_sorted(global_arr, n) # 0 THEN "SORTED" ELSE "NOT SORTED")
                 ELSE result
    /\ allocated' = {b \in allocated : b[1] # r}
    /\ pc' = [pc EXCEPT ![r] = "done"]
    /\ UNCHANGED <<size, n, input, N, local_size, k, j, global_arr, local, recv_buf,
                   new_local, chan, scat, gath, arrived, aborted, rounds, hist,
                   mergeVars, sizerVars, extVars>>

\* the steps of the process of rank r
Proc(r) ==
    \/ ConfigAbort(r)
    \/ ComputeSizes(r)
    \/ Allocate(r)
    \/ BarrierEnter(r)
    \/ BarrierExit(r)
    \/ Scatter(r)
    \/ LocalSort(r)
    \/ SendrecvCall(r)
    \/ SendrecvReturn(r)
    \/ MergeSelect(r)
    \/ Gather(r)
    \/ Finish(r)

Next ==
    \/ \E r \in Ranks : ConfigAbort(r)
    \/ \E r \in Ranks : ComputeSizes(r)
    \/ \E r \in Ranks : Allocate(r)
    \/ \E r \in Ranks : BarrierEnter(r)
    \/ \E r \in Ranks : BarrierExit(r)
    \/ \E r \in Ranks : Scatter(r)
    \/ \E r \in Ranks : LocalSort(r)
    \/ \E r \in Ranks : SendrecvCall(r)
    \/ \E r \in Ranks : SendrecvReturn(r)
    \/ \E r \in Ranks : MergeSelect(r)
    \/ \E r \in Ranks : Gather(r)
    \/ \E r \in Ranks : Finish(r)

Spec == Init /\ [][Next]_vars

\* the runs with n = MaxPhaseN (partitions of two elements on four processes)
PhaseInit == InitWith([1..MaxPhaseN -> 0..MaxVal])

PhaseSpec == PhaseInit /\ [][Next]_vars

\* the run with n = 8 whose rand() values are 5, 3, 8, 1, 9, 2, 7, 4
ScenarioInput == <<5, 3, 8, 1, 9, 2, 7, 4>>

ScenarioInit == InitWith({ScenarioInput})

ScenarioSpec == ScenarioInit /\ [][Next]_vars

\* each rank is a process of its own: it takes its next step when it can
FairSpec == LiveInit /\ [][Next]_vars /\ \A r \in 0..(MaxSize - 1) : WF_vars(r \in Ranks /\ Proc(r))

(***************************************************************************)
(* bitonic_sort_recursive on its own                                       *)
(***************************************************************************)
SortLens == {2^e : e \in 0..30} \cap 1..MaxSortLen

\* the call bitonic_sort_recursive(arr, 0, m, dir) on an array of m elements
\* that is followed in memory by one more cell (holding -1)
SortInit ==
    /\ bpc = "call"
    /\ bm \in SortLens
    /\ \E a \in [1..bm -> 0..MaxSortVal] : bmem = a \o <<-1>>
    /\ bdir \in {0, 1}
    /\ bres = << >>
    /\ btouched = {}
    /\ sortOthersIdle

SortCall ==
    /\ bpc = "call"
    /\ bres' = bitonic_sort_recursive(bmem, 0, bm, bdir)
    /\ btouched' = SortTouched(0, bm)
    /\ bpc' = "returned"
    /\ UNCHANGED <<bmem, bm, bdir, sortRest>>

SortNext == SortCall

SortSpec == SortInit /\ [][SortNext]_vars

(***************************************************************************)
(* The parallel loop of bitonic_merge (src/Extra/bitonicOmp.c; the same    *)
(* loop is in src/Parallel/bitonicOmp.c and src/OpenMP/bitonicOmp02.c),    *)
(* one step per statement of a thread                                      *)
(***************************************************************************)
\* the calls bitonic_merge(arr, low, cnt, dir) with cnt > 1 on blocks of the array
ForBlocks ==
    {b \in (0..MaxForLen) \X (2..MaxForLen) :
        IsPow2(b[2]) /\ b[1] % b[2] = 0 /\ b[1] + b[2] <= MaxForLen}

\* schedule(static): the k iterations low..low+k-1 are divided into contiguous
\* chunks of nearly equal size, one per thread; the first iteration of thread
\* t and the one behind its last
ChunkFirst(t, low, kk, nthreads) ==
    low + t * (kk \div nthreads) + (IF t < kk % nthreads THEN t ELSE kk % nthreads)

ChunkEnd(t, low, kk, nthreads) == ChunkFirst(t + 1, low, kk, nthreads)

\* the position of thread t when its next iteration would be i
ForAt(t, i) ==
    IF i < ChunkEnd(t, flow, fk, fthreads) THEN [i |-> i, at |-> "test"]
    ELSE [i |-> i, at |-> "done"]

\* int k = cnt / 2; #pragma omp parallel for schedule(static)
ForInit ==
    /\ fmem0 \in [1..MaxForLen -> 0..MaxForVal]
    /\ fmem = fmem0
    /\ \E b \in ForBlocks : flow = b[1] /\ fk = b[2] \div 2
    /\ fdir \in {0, 1}
    /\ fthreads \in 1..MaxThreads
    /\ fpc = [t \in 0..(fthreads - 1) |-> ForAt(t, ChunkFirst(t, flow, fk, fthreads))]
    /\ ftmp = [t \in 0..(fthreads - 1) |-> 0]
    /\ facc = [i \in flow..(flow + fk - 1) |-> {}]
    /\ forOthersIdle

\* variant: the element compared with arr[i] is its neighbour arr[i + 1]
ForOther_neighbour(i, kk) == i + 1

\* the index of arr[i + k]
ForOther(i, kk) == i + kk

\* if (dir == 1) { if (arr[i] > arr[i + k]) ... } else { if (arr[i] < arr[i + k]) ... }
ForTest(t) ==
    /\ fpc[t].at = "test"
    /\ LET i == fpc[t].i
           a == fmem[i + 1]
           b == fmem[ForOther(i, fk) + 1]
           cond == IF fdir = 1 THEN a > b ELSE a < b
       IN  /\ facc' = [facc EXCEPT ![i] = @ \cup {i, ForOther(i, fk)}]
           /\ fpc' = [fpc EXCEPT ![t] = IF cond THEN [i |-> i, at |-> "swap_t"]
                                         ELSE ForAt(t, i + 1)]
    /\ UNCHANGED <<fmem, fmem0, flow, fk, fdir, fthreads, ftmp, forRest>>

\* swap_int: int t = *a;
ForSwapT(t) ==
    /\ fpc[t].at = "swap_t"
    /\ ftmp' = [ftmp EXCEPT ![t] = fmem[fpc[t].i + 1]]
    /\ fpc' = [fpc EXCEPT ![t] = [i |-> fpc[t].i, at |-> "swap_a"]]
    /\ UNCHANGED <<fmem, fmem0, flow, fk, fdir, fthreads, facc, forRest>>

\* swap_int: *a = *b;
ForSwapA(t) ==
    /\ fpc[t].at = "swap_a"
    /\ fmem' = [fmem EXCEPT ![fpc[t].i + 1] = fmem[ForOther(fpc[t].i, fk) + 1]]
    /\ fpc' = [fpc EXCEPT ![t] = [i |-> fpc[t].i, at |-> "swap_b"]]
    /\ UNCHANGED <<fmem0, flow, fk, fdir, fthreads, ftmp, facc, forRest>>

\* swap_int: *b = t; then i++ and the loop test
ForSwapB(t) ==
    /\ fpc[t].at = "swap_b"
    /\ fmem' = [fmem EXCEPT ![ForOther(fpc[t].i, fk) + 1] = ftmp[t]]
    /\ fpc' = [fpc EXCEPT ![t] = ForAt(t, fpc[t].i + 1)]
    /\ UNCHANGED <<fmem0, flow, fk, fdir, fthreads, ftmp, facc, forRest>>

ForNext ==
    \/ \E t \in DOMAIN fpc : ForTest(t)
    \/ \E t \in DOMAIN fpc : ForSwapT(t)
    \/ \E t \in DOMAIN fpc : ForSwapA(t)
    \/ \E t \in DOMAIN fpc : ForSwapB(t)

ForSpec == ForInit /\ [][ForNext]_vars

(***************************************************************************)
(* The OpenMP sorts as a tree of calls: bitonic_sort_parallel of           *)
(* src/OpenMP/bitonicOmp02.c (tasks and taskwait) and bitonic_sort_        *)
(* recursive of src/Extra/bitonicOmp.c and src/Parallel/bitonicOmp.c       *)
(* (parallel sections).  A call is named by its path from the first call:  *)
(* child 1 and 2 are the two recursive calls, child 3 of a sort is its     *)
(* merge.  Calls that run as tasks or sections interleave freely.          *)
(***************************************************************************)
TaskLens == {2^e : e \in 0..30} \cap 1..MaxTaskLen

IsPrefix(q, path) == Len(q) <= Len(path) /\ SubSeq(path, 1, Len(q)) = q

Frame(fn, low, cnt, dir) ==
    [fn |-> fn, low |-> low, cnt |-> cnt, dir |-> dir, pc |-> "begin", todo |-> {}]

\* bitonic_sort_parallel: bitonic_sort_recursive(arr, 0, n, 1) in a single region
TaskInit ==
    /\ \E len \in TaskLens :
          /\ tmem0 \in [1..len -> 0..MaxTaskVal]
          /\ tframes = (<< >> :> Frame("sort", 0, len, 1))
    /\ tmem = tmem0
    /\ tacc = (<< >> :> {})
    /\ \/ tmode = "sections" /\ tcut = 0 /\ tloop = 0
       \/ /\ tmode = "tasks"
          /\ tcut \in (0..MaxCutoff) \cup {TaskCutoff}
          /\ tloop \in (0..MaxCutoff) \cup {LoopCutoff}
    /\ taskOthersIdle

\* the two recursive calls of bitonic_sort_recursive run as sections, or as
\* tasks if (k > 2048)
SortParallel(f) == tmode = "sections" \/ (f.cnt \div 2) > tcut

\* the two recursive calls of bitonic_merge run as tasks if (k > 2048); the
\* sections programs call them one after the other
MergeParallel(f) == tmode = "tasks" /\ (f.cnt \div 2) > tcut

\* #pragma omp parallel for, in bitonicOmp02.c with if(k > 1000)
LoopParallel(f) == tmode = "sections" \/ (f.cnt \div 2) > tloop

\* bitonic_sort_recursive(arr, low, k, 1); bitonic_sort_recursive(arr, low + k, k, 0);
\* bitonic_merge(arr, low, cnt, dir);
SortChild(f, c) ==
    CASE c = 1 -> Frame("sort", f.low, f.cnt \div 2, 1)
      [] c = 2 -> Frame("sort", f.low + (f.cnt \div 2), f.cnt \div 2, 0)
      [] OTHER -> Frame("merge", f.low, f.cnt, f.dir)

\* variant: the second recursive merge starts at low
MergeChild_same_low(f, c) == Frame("merge", f.low, f.cnt \div 2, f.dir)

\* bitonic_merge(arr, low, k, dir); bitonic_merge(arr, low + k, k, dir);
MergeChild(f, c) ==
    IF c = 1 THEN Frame("merge", f.low, f.cnt \div 2, f.dir)
    ELSE Frame("merge", f.low + (f.cnt \div 2), f.cnt \div 2, f.dir)

Child(f, c) == IF f.fn = "sort" THEN SortChild(f, c) ELSE MergeChild(f, c)

Parallel(f) == IF f.fn = "sort" THEN SortParallel(f) ELSE MergeParallel(f)

\* the call at path makes its child c
Spawn(path, c, at) ==
    /\ tframes' = (Append(path, c) :> Child(tframes[path], c)) @@
                      [tframes EXCEPT ![path].pc = at]
    /\ tacc' = (Append(path, c) :> {}) @@ tacc

Returned(path) == path \in DOMAIN tframes /\ tframes[path].pc = "ret"

\* if (cnt > 1) { int k = cnt / 2; ... the first recursive call of a sort
SortBegin(path) ==
    /\ tframes[path].fn = "sort" /\ tframes[path].pc = "begin"
    /\ IF tframes[path].cnt > 1
       THEN Spawn(path, 1, IF Parallel(tframes[path]) THEN "second" ELSE "in_first")
       ELSE tframes' = [tframes EXCEPT ![path].pc = "ret"] /\ UNCHANGED tacc
    /\ UNCHANGED <<tmem, tmem0, tmode, tcut, tloop, taskRest>>

\* if (cnt > 1) { int k = cnt / 2; and the loop of a merge starts
MergeBegin(path) ==
    /\ tframes[path].fn = "merge" /\ tframes[path].pc = "begin"
    /\ LET f == tframes[path]
       IN  tframes' = [tframes EXCEPT ![path] =
               IF f.cnt > 1
               THEN [f EXCEPT !.pc = "loop",
                              !.todo = f.low..(f.low + (f.cnt \div 2) - 1)]
               ELSE [f EXCEPT !.pc = "ret"]]
    /\ UNCHANGED <<tacc, tmem, tmem0, tmode, tcut, tloop, taskRest>>

\* one iteration: if (dir == 1) { if (arr[i] > arr[i + k]) swap_int(...) } else ...
TaskCas(arr, i, kk, dir) ==
    IF (IF dir = 1 THEN arr[i + 1] > arr[i + kk + 1] ELSE arr[i + 1] < arr[i + kk + 1])
    THEN [arr EXCEPT ![i + 1] = arr[i + kk + 1], ![i + kk + 1] = arr[i + 1]]
    ELSE arr

\* the iterations of the loop: in order, or in any order under parallel for
MergeIteration(path) ==
    /\ tframes[path].fn = "merge" /\ tframes[path].pc = "loop"
    /\ LET f == tframes[path]
           kk == f.cnt \div 2
       IN  \E i \in f.todo :
             /\ LoopParallel(f) \/ \A i2 \in f.todo : i <= i2
             /\ tmem' = TaskCas(tmem, i, kk, f.dir)
             /\ tacc' = [tacc EXCEPT ![path] = @ \cup {i, i + kk}]
             /\ tframes' = [tframes EXCEPT ![path].todo = @ \ {i}]
    /\ UNCHANGED <<tmem0, tmode, tcut, tloop, taskRest>>

\* behind the loop: the first recursive call of a merge
MergeLoopEnd(path) ==
    /\ tframes[path].fn = "merge" /\ tframes[path].pc = "loop"
    /\ tframes[path].todo = {}
    /\ Spawn(path, 1, IF Parallel(tframes[path]) THEN "second" ELSE "in_first")
    /\ UNCHANGED <<tmem, tmem0, tmode, tcut, tloop, taskRest>>

\* the second task or section is made while the first may be running
SecondTask(path) ==
    /\ tframes[path].pc = "second"
    /\ Spawn(path, 2, "taskwait")
    /\ UNCHANGED <<tmem, tmem0, tmode, tcut, tloop, taskRest>>

\* run one after the other, the second call follows the return of the first
SecondCall(path) ==
    /\ tframes[path].pc = "in_first"
    /\ Returned(Append(path, 1))
    /\ Spawn(path, 2, "in_second")
    /\ UNCHANGED <<tmem, tmem0, tmode, tcut, tloop, taskRest>>

\* variant: no taskwait and no barrier behind the two half-sorts
Joined_no_wait(path) == TRUE

\* #pragma omp taskwait, the barrier at the end of the sections, or the
\* return of the second call
Joined(path) ==
    \/ /\ tframes[path].pc = "taskwait"
       /\ Returned(Append(path, 1)) /\ Returned(Append(path, 2))
    \/ /\ tframes[path].pc = "in_second"
       /\ Returned(Append(path, 2))

\* bitonic_merge(arr, low, cnt, dir) of a sort, behind the two half-sorts
SortMerge(path) ==
    /\ tframes[path].fn = "sort"
    /\ tframes[path].pc \in {"taskwait", "in_second"}
    /\ Joined(path)
    /\ Spawn(path, 3, "in_merge")
    /\ UNCHANGED <<tmem, tmem0, tmode, tcut, tloop, taskRest>>

\* a sort returns when its merge has returned
SortReturn(path) ==
    /\ tframes[path].fn = "sort" /\ tframes[path].pc = "in_merge"
    /\ Returned(Append(path, 3))
    /\ tframes' = [tframes EXCEPT ![path].pc = "ret"]
    /\ UNCHANGED <<tacc, tmem, tmem0, tmode, tcut, tloop, taskRest>>

\* a merge returns behind its two recursive calls
MergeReturn(path) ==
    /\ tframes[path].fn = "merge"
    /\ tframes[path].pc \in {"taskwait", "in_second"}
    /\ Joined(path)
    /\ tframes' = [tframes EXCEPT ![path].pc = "ret"]
    /\ UNCHANGED <<tacc, tmem, tmem0, tmode, tcut, tloop, taskRest>>

TaskNext ==
    \/ \E path \in DOMAIN tframes : SortBegin(path)
    \/ \E path \in DOMAIN tframes : MergeBegin(path)
    \/ \E path \in DOMAIN tframes : MergeIteration(path)
    \/ \E path \in DOMAIN tframes : MergeLoopEnd(path)
    \/ \E path \in DOMAIN tframes : SecondTask(path)
    \/ \E path \in DOMAIN tframes : SecondCall(path)
    \/ \E path \in DOMAIN tframes : SortMerge(path)
    \/ \E path \in DOMAIN tframes : SortReturn(path)
    \/ \E path \in DOMAIN tframes : MergeReturn(path)

TaskSpec == TaskInit /\ [][TaskNext]_vars

\* the indices accessed by the call at path and by every call below it
SubAcc(path) == UNION {tacc[q] : q \in {q2 \in DOMAIN tacc : IsPrefix(path, q2)}}

\* the call at path and every call below it have returned
SubDone(path) ==
    /\ path \in DOMAIN tframes
    /\ \A q \in DOMAIN tframes : IsPrefix(path, q) => tframes[q].pc = "ret"

(***************************************************************************)
(* verify_sorted on its own                                                *)
(***************************************************************************)
VerVals == 0..MaxVerVal \cup {INT_MAX}

\* the call verify_sorted(global, n) on an array of at least n elements
VerInit ==
    /\ vpc = "call"
    /\ \E len \in 1..MaxVerLen :
          /\ vglobal \in [1..len -> VerVals]
          /\ vn \in 1..len
    /\ vres = 0
    /\ verOthersIdle

VerCall ==
    /\ vpc = "call"
    /\ vres' = verify_sorted(vglobal, vn)
    /\ vpc' = "returned"
    /\ UNCHANGED <<vglobal, vn, verRest>>

VerNext == VerCall

VerSpec == VerInit /\ [][VerNext]_vars

(***************************************************************************)
(* The network of main on partitions of one element (local_size = 1), the  *)
(* ranks taken round by round, beside the textbook bitonic network         *)
(***************************************************************************)
WireSizes == {2^e : e \in 0..MaxWireLog}

\* variant: the partner is rank + j, wrapping at size
PartnerOf_plus_j(rank, jj) == (rank + jj) % wsize

\* int partner = rank ^ j;
PartnerOf(rank, jj) == BitXor(rank, jj)

\* the textbook network, stage (kk, jj): wire w is compared with the wire whose
\* index differs in bit jj; the lower wire i of the pair gets the minimum
\* when bit kk of i is 0 and the maximum otherwise
RefOther(w, jj) == IF (w \div jj) % 2 = 0 THEN w + jj ELSE w - jj

RefKeepsMin(w, kk, jj) ==
    LET l == RefOther(w, jj)
        i == IF w < l THEN w ELSE l
    IN  IF (i \div kk) % 2 = 0 THEN w = i ELSE w # i

RefStage(ws, kk, jj) ==
    [w \in DOMAIN ws |->
        LET a == ws[w]
            b == ws[RefOther(w, jj)]
        IN  IF RefKeepsMin(w, kk, jj)
            THEN (IF a <= b THEN a ELSE b)
            ELSE (IF a <= b THEN b ELSE a)]

\* the loops are entered: k = 2 and the test k <= size, j = k >> 1
SchedInit ==
    /\ wsize \in WireSizes
    /\ wires \in [0..(wsize - 1) -> {0, 1}]
    /\ wref = wires
    /\ LET nxt == LoopK(2, wsize)
       IN  /\ wk = nxt[1]
           /\ wj = nxt[2]
           /\ wpc = IF nxt[3] = "sendrecv" THEN "decide" ELSE "end"
    /\ wpartner = [r \in 0..(wsize - 1) |-> r]
    /\ wkeep = [r \in 0..(wsize - 1) |-> 0]
    /\ schedOthersIdle

\* every rank computes partner, ascending_block, lower_partner and keep_low
SchedDecide ==
    /\ wpc = "decide"
    /\ wpartner' = [r \in 0..(wsize - 1) |-> PartnerOf(r, wj)]
    /\ wkeep' = [r \in 0..(wsize - 1) |-> KeepLow(r, wk, wj)]
    /\ wpc' = "exchange"
    /\ UNCHANGED <<wsize, wk, wj, wires, wref, schedRest>>

\* every rank exchanges its element with its partner, keeps the low or the
\* high one (merge_and_select with len = 1), and steps its loops; a partner
\* outside the communicator ends the run
SchedExchange ==
    /\ wpc = "exchange"
    /\ IF \A r \in 0..(wsize - 1) : wpartner[r] \in 0..(wsize - 1)
       THEN LET nxt == LoopJ(wk, Shr1(wj), wsize)
            IN  /\ wires' = [r \in 0..(wsize - 1) |->
                                merge_and_select(<<wires[r]>>, <<wires[wpartner[r]]>>,
                                                 1, wkeep[r])[1]]
                /\ wref' = RefStage(wref, wk, wj)
                /\ wk' = nxt[1]
                /\ wj' = nxt[2]
                /\ wpc' = IF nxt[3] = "sendrecv" THEN "decide" ELSE "end"
       ELSE /\ wpc' = "aborted"
            /\ UNCHANGED <<wires, wref, wk, wj>>
    /\ UNCHANGED <<wsize, wpartner, wkeep, schedRest>>

SchedNext == SchedDecide \/ SchedExchange

SchedSpec == SchedInit /\ [][SchedNext]_vars

(***************************************************************************)
(* src/Extra/bitonicMPI.c (main), one process per rank                     *)
(***************************************************************************)
\* the state after MPI_Init and the reading of n
ExtraInitUpTo(cnt) ==
    /\ size \in 1..MaxSize
    /\ input \in Inputs(cnt)
    /\ n = Len(input)
    /\ pc = [r \in Ranks |-> "x_start"]
    /\ N = [r \in Ranks |-> 0]
    /\ local_size = [r \in Ranks |-> 0]
    /\ k = [r \in Ranks |-> 0]
    /\ j = [r \in Ranks |-> 0]
    /\ global_arr = << >>
    /\ local = [r \in Ranks |-> << >>]
    /\ recv_buf = [r \in Ranks |-> << >>]
    /\ new_local = [r \in Ranks |-> << >>]
    /\ allocated = {}
    /\ chan = [sd \in Ranks \X Ranks |-> << >>]
    /\ scat = [r \in Ranks |-> << >>]
    /\ gath = [r \in Ranks |-> << >>]
    /\ arrived = [r \in Ranks |-> 0]
    /\ aborted = FALSE
    /\ result = "none"
    /\ rounds = [r \in Ranks |-> 0]
    /\ hist = [r \in Ranks |-> << >>]
    /\ bcast = FALSE
    /\ stale = FALSE
    /\ extraOthersIdle

ExtraInit == ExtraInitUpTo(MaxExtraN)

\* MPI_Bcast(&n, 1, MPI_INT, 0, MPI_COMM_WORLD): rank 0 sends n, every other
\* rank returns once it has it (all ranks read the same n from argv)
ExtraBcast(r) ==
    /\ pc[r] = "x_start"
    /\ IF r = 0 THEN bcast' = TRUE ELSE bcast /\ bcast' = bcast
    /\ pc' = [pc EXCEPT ![r] = "x_sizes"]
    /\ UNCHANGED <<size, n, input, N, local_size, k, j, global_arr, local, recv_buf,
                   new_local, allocated, chan, scat, gath, arrived, aborted, result,
                   rounds, hist, stale, extraRest>>

\* int total_size = next_power_of_two(n);
\* if (total_size < size) total_size = size;
\* int local_size = total_size / size;   (C division of non-negative ints)
ExtraSizes(r) ==
    /\ pc[r] = "x_sizes"
    /\ LET npt == next_power_of_two(n)
           total_size == IF npt < size THEN size ELSE npt
       IN  /\ N' = [N EXCEPT ![r] = total_size]
           /\ local_size' = [local_size EXCEPT ![r] = total_size \div size]
    /\ pc' = [pc EXCEPT ![r] = "x_alloc"]
    /\ UNCHANGED <<size, n, input, k, j, global_arr, local, recv_buf, new_local,
                   allocated, chan, scat, gath, arrived, aborted, result, rounds,
                   hist, bcast, stale, extraRest>>

\* local_arr = malloc(local_size); rank 0: global_arr = malloc(total_size),
\* filled with rand() % 10000 and the INT_MAX padding
ExtraAllocate(r) ==
    /\ pc[r] = "x_alloc"
    /\ global_arr' = IF r = 0 THEN FillGlobal(input, n, N[r]) ELSE global_arr
    /\ allocated' = allocated \cup {<<r, "local">>}
                      \cup (IF r = 0 THEN {<<r, "global_arr">>} ELSE {})
    /\ pc' = [pc EXCEPT ![r] = "x_scatter"]
    /\ UNCHANGED <<size, n, input, N, local_size, k, j, local, recv_buf, new_local,
                   chan, scat, gath, arrived, aborted, result, rounds, hist, bcast,
                   stale, extraRest>>

\* MPI_Scatter(global_arr, local_size, ..., local_arr, local_size, ..., 0, ...)
ExtraScatter(r) ==
    /\ pc[r] = "x_scatter"
    /\ IF r = 0
       THEN /\ scat' = [q \in Ranks |-> Chunk(global_arr, q, local_size[r])]
            /\ local' = [local EXCEPT ![r] = Chunk(global_arr, 0, local_size[r])]
       ELSE /\ scat[r] # << >>
            /\ local' = [local EXCEPT ![r] = scat[r]]
            /\ scat' = scat
    /\ pc' = [pc EXCEPT ![r] = "x_sort"]
    /\ UNCHANGED <<size, n, input, N, local_size, k, j, global_arr, recv_buf,
                   new_local, allocated, chan, gath, arrived, aborted, result,
                   rounds, hist, bcast, stale, extraRest>>

\* the position <<k, j, pc>> of the loops of src/Extra/bitonicMPI.c
ExtraLoop(nxt) == <<nxt[1], nxt[2], IF nxt[3] = "sendrecv" THEN "x_sendrecv" ELSE "x_gather">>

\* bitonic_sort_recursive(local_arr, 0, local_size, 1); the loops are entered
\* with k = 2 and the test k <= size
ExtraLocalSort(r) ==
    /\ pc[r] = "x_sort"
    /\ LET sorted == bitonic_sort_recursive(local[r], 0, local_size[r], 1)
           nxt == ExtraLoop(LoopK(2, size))
       IN  /\ local' = [local EXCEPT ![r] = sorted]
           /\ hist' = [hist EXCEPT ![r] = <<sorted>>]
           /\ k' = [k EXCEPT ![r] = nxt[1]]
           /\ j' = [j EXCEPT ![r] = nxt[2]]
           /\ pc' = [pc EXCEPT ![r] = nxt[3]]
    /\ UNCHANGED <<size, n, input, N, local_size, global_arr, recv_buf, new_local,
                   allocated, chan, scat, gath, arrived, aborted, result, rounds,
                   bcast, stale, extraRest>>

\* variant: the send buffer of MPI_Sendrecv is recv_arr
ExtraSendrecvCall_sends_recv_arr(r) ==
    /\ pc[r] = "x_sendrecv"
    /\ IF Partner(r) \in Ranks
       THEN /\ chan' = [chan EXCEPT ![<<r, Partner(r)>>] = Append(@, recv_buf[r])]
            /\ rounds' = [rounds EXCEPT ![r] = @ + 1]
            /\ allocated' = allocated \cup {<<r, "recv_arr">>}
            /\ pc' = [pc EXCEPT ![r] = "x_wait"]
            /\ aborted' = aborted
       ELSE /\ MPI_Abort
            /\ UNCHANGED <<chan, rounds, allocated>>
    /\ UNCHANGED <<size, n, input, N, local_size, k, j, global_arr, local, recv_buf,
                   new_local, scat, gath, arrived, result, hist, bcast, stale,
                   extraRest>>

\* int partner = rank ^ j; recv_arr = malloc(local_size); MPI_Sendrecv is
\* called: local_arr is sent to partner (a rank outside the communicator is an
\* MPI error, which is fatal)
ExtraSendrecvCall(r) ==
    /\ pc[r] = "x_sendrecv"
    /\ IF Partner(r) \in Ranks
       THEN /\ chan' = [chan EXCEPT ![<<r, Partner(r)>>] = Append(@, local[r])]
            /\ rounds' = [rounds EXCEPT ![r] = @ + 1]
            /\ allocated' = allocated \cup {<<r, "recv_arr">>}
            /\ pc' = [pc EXCEPT ![r] = "x_wait"]
            /\ aborted' = aborted
       ELSE /\ MPI_Abort
            /\ UNCHANGED <<chan, rounds, allocated>>
    /\ UNCHANGED <<size, n, input, N, local_size, k, j, global_arr, local, recv_buf,
                   new_local, scat, gath, arrived, result, hist, bcast, stale,
                   extraRest>>

\* MPI_Sendrecv returns: the oldest message of partner is in recv_arr
ExtraSendrecvReturn(r) ==
    /\ pc[r] = "x_wait"
    /\ chan[<<Partner(r), r>>] # << >>
    /\ recv_buf' = [recv_buf EXCEPT ![r] = Head(chan[<<Partner(r), r>>])]
    /\ chan' = [chan EXCEPT ![<<Partner(r), r>>] = Tail(@)]
    /\ stale' = (stale \/ Len(hist[Partner(r)]) < rounds[r]
                        \/ Head(chan[<<Partner(r), r>>]) # hist[Partner(r)][rounds[r]])
    /\ pc' = [pc EXCEPT ![r] = "x_exchange"]
    /\ UNCHANGED <<size, n, input, N, local_size, k, j, global_arr, local, new_local,
                   allocated, scat, gath, arrived, aborted, result, rounds, hist,
                   bcast, extraRest>>

\* int keep_min = ((rank & k) == 0);
ExtraKeepMin(rank, kk, jj) == IF BitAnd(rank, kk) = 0 THEN 1 ELSE 0

\* one iteration of the compare-and-exchange loop: local_arr[i] after it
ExtraKeep(a, b, keep_min) ==
    IF keep_min # 0
    THEN (IF a > b THEN b ELSE a)
    ELSE (IF a < b THEN b ELSE a)

\* for (i = 0; i < local_size; i++) ...: local_arr after the loop (iteration i
\* reads and writes local_arr[i] and recv_arr[i] only)
ExtraCompareExchangeLoop(loc, rcv, lsz, keep_min) ==
    [i \in 1..lsz |-> ExtraKeep(loc[i], rcv[i], keep_min)]

\* the compare-and-exchange loop; free(recv_arr); j /= 2 and the loop tests
ExtraCompareExchange(r) ==
    /\ pc[r] = "x_exchange"
    /\ LET res == ExtraCompareExchangeLoop(local[r], recv_buf[r], local_size[r],
                                           ExtraKeepMin(r, k[r], j[r]))
           nxt == ExtraLoop(LoopJ(k[r], Shr1(j[r]), size))
       IN  /\ local' = [local EXCEPT ![r] = res]
           /\ hist' = [hist EXCEPT ![r] = Append(@, res)]
           /\ k' = [k EXCEPT ![r] = nxt[1]]
           /\ j' = [j EXCEPT ![r] = nxt[2]]
           /\ pc' = [pc EXCEPT ![r] = nxt[3]]
    /\ allocated' = allocated \ {<<r, "recv_arr">>}
    /\ UNCHANGED <<size, n, input, N, local_size, global_arr, recv_buf, new_local,
                   chan, scat, gath, arrived, aborted, result, rounds, bcast,
                   stale, extraRest>>

\* MPI_Gather(local_arr, local_size, ..., global_arr, local_size, ..., 0, ...):
\* the chunks of the ranks are placed at the front of global_arr
ExtraGather(r) ==
    /\ pc[r] = "x_gather"
    /\ IF r = 0
       THEN /\ \A q \in Ranks \ {0} : gath[q] # << >>
            /\ LET got == Concat([gath EXCEPT ![0] = local[0]], 0, size)
               IN  global_arr' = got \o SubSeq(global_arr, Len(got) + 1, Len(global_arr))
            /\ gath' = [gath EXCEPT ![0] = local[0]]
       ELSE /\ gath' = [gath EXCEPT ![r] = local[r]]
            /\ global_arr' = global_arr
    /\ pc' = [pc EXCEPT ![r] = "x_finish"]
    /\ UNCHANGED <<size, n, input, N, local_size, k, j, local, recv_buf, new_local,
                   allocated, chan, scat, arrived, aborted, result, rounds, hist,
                   bcast, stale, extraRest>>

\* rank 0: the verification loop over global_arr[0..n), "SORTED" or
\* "NOT SORTED" is printed; the buffers are freed; MPI_Finalize
ExtraFinish(r) ==
    /\ pc[r] = "x_finish"
    /\ result' = IF r = 0
                 THEN (IF VerifyLoop(global_arr, n, 1) # 0 THEN "SORTED" ELSE "NOT SORTED")
                 ELSE result
    /\ allocated' = {b \in allocated : b[1] # r}
    /\ pc' = [pc EXCEPT ![r] = "done"]
    /\ UNCHANGED <<size, n, input, N, local_size, k, j, global_arr, local, recv_buf,
                   new_local, chan, scat, gath, arrived, aborted, rounds, hist,
                   bcast, stale, extraRest>>

ExtraNext ==
    \/ \E r \in Ranks : ExtraBcast(r)
    \/ \E r \in Ranks : ExtraSizes(r)
    \/ \E r \in Ranks : ExtraAllocate(r)
    \/ \E r \in Ranks : ExtraScatter(r)
    \/ \E r \in Ranks : ExtraLocalSort(r)
    \/ \E r \in Ranks : ExtraSendrecvCall(r)
    \/ \E r \in Ranks : ExtraSendrecvReturn(r)
    \/ \E r \in Ranks : ExtraCompareExchange(r)
    \/ \E r \in Ranks : ExtraGather(r)
    \/ \E r \in Ranks : ExtraFinish(r)

ExtraSpec == ExtraInit /\ [][ExtraNext]_vars

(***************************************************************************)
(* Properties                                                              *)
(***************************************************************************)
\* rank 0 has returned from MPI_Gather
Gathered == size > 0 /\ pc[0] \in {"barrier_end", "wait_end", "finish", "done"}

\* rank r has left the loops of the network
PastNetwork(r) == pc[r] \in {"gather", "barrier_end", "wait_end", "finish", "done"}

\* rank r is in round (k, j) of the network, its MPI_Sendrecv called
InRound(r) == pc[r] \in {"sendrecv_wait", "merge", "barrier_round", "wait_round"}

\* rank r holds a locally sorted partition
PastLocalSort(r) == InRound(r) \/ pc[r] = "sendrecv" \/ PastNetwork(r)

\* C1: for n > 0, a power-of-two P <= n and input values below INT_MAX, the
\* first n elements of the gathered rank-ordered concatenation are
\* non-decreasing and are, as a multiset, the n input values.
C1_GatheredIsSortedInput ==
    (Gathered /\ size <= n) =>
        /\ Len(global_arr) >= n
        /\ IsAscending(SubSeq(global_arr, 1, n))
        /\ BagOf(SubSeq(global_arr, 1, n)) = BagOf(input)

C1_Witness ==
    /\ Gathered /\ size = 4 /\ n = 4
    /\ input = <<1, 0, 1, 0>>
    /\ global_arr = <<0, 0, 1, 1>>

\* C2: for ascending a and b of length len, dst is ascending, has length len and
\* is the first len (keep_low # 0) or the last len (keep_low = 0) elements of
\* the ascending arrangement of the 2*len values of a and b.
C2_MergeSelectHalf ==
    \A kl \in DOMAIN mdst :
        /\ Len(mdst[kl]) = mlen
        /\ IsAscending(mdst[kl])
        /\ mdst[kl] = IF kl # 0
                      THEN SubSeq(SortAsc(ma \o mb), 1, mlen)
                      ELSE SubSeq(SortAsc(ma \o mb), mlen + 1, 2 * mlen)

C2_Witness ==
    /\ ma = <<0, 2>> /\ mb = <<1, INT_MAX>>
    /\ DOMAIN mdst = {0, 1}
    /\ mdst[1] = <<0, 1>> /\ mdst[0] = <<2, INT_MAX>>

\* C3: from the local sort on, between the rounds of the network, the partition
\* of every process is in ascending order.
C3_PartitionAscending ==
    \A r \in Ranks : PastLocalSort(r) => IsAscending(local[r])

C3_Witness ==
    \E r \in Ranks :
        /\ pc[r] = "barrier_round" /\ rounds[r] = 3
        /\ Len(hist[r]) = 4
        /\ hist[r][4] # hist[r][1]

\* C4: with the N - n padding slots set to INT_MAX and input values below
\* INT_MAX, every index >= n of the gathered sequence holds a sentinel and no
\* index < n does (0-based indices).
C4_SentinelsAtTail ==
    Gathered =>
        /\ Len(global_arr) = N[0]
        /\ \A i \in 1..Len(global_arr) : (global_arr[i] = INT_MAX) <=> (i > n)

C4_Witness ==
    /\ Gathered /\ size = 2 /\ n = 3 /\ N[0] = 4
    /\ input = <<1, 0, 1>>
    /\ hist[1][1] = <<1, INT_MAX>>
    /\ global_arr = <<0, 1, 1, INT_MAX>>

\* C5: for n > 0 and a power-of-two P (P > n included), N is the smallest power
\* of two that is >= n and a multiple of P, and local_size = N / P is an
\* integer >= 1 with local_size * P = N; the exit for local_size <= 0 is not taken.
C5_PaddedSize ==
    /\ spc # "abort"
    /\ spc = "sized" =>
         /\ IsPow2(sN) /\ sN >= sn /\ sN % ssize = 0
         /\ \A e \in 0..30 : (2^e >= sn /\ (2^e) % ssize = 0) => 2^e >= sN
         /\ slocal >= 1
         /\ slocal * ssize = sN

C5_Witness ==
    spc = "sized" /\ sn = 5 /\ ssize = 16 /\ sN = 16 /\ slocal = 1

\* nothing of what the program does after the test of the process count has
\* happened: no size computed, no buffer allocated, no message, no result
NothingStarted ==
    /\ allocated = {}
    /\ global_arr = << >>
    /\ \A r \in Ranks :
         /\ pc[r] \in {"start", "aborted"}
         /\ N[r] = 0 /\ local_size[r] = 0
         /\ local[r] = << >> /\ recv_buf[r] = << >> /\ new_local[r] = << >>
         /\ scat[r] = << >> /\ gath[r] = << >>
         /\ rounds[r] = 0 /\ hist[r] = << >> /\ arrived[r] = 0
    /\ \A sd \in DOMAIN chan : chan[sd] = << >>
    /\ result = "none"

\* C6: when P is not a power of two, nothing is allocated, scattered, sorted,
\* exchanged or gathered and no result is printed, at any time (the abort is
\* the one of the process-count test, taken before the sizes are computed),
\* and every process reaches the abort state.
C6_AbortBeforeAnyWork ==
    /\ []((size > 0 /\ ~IsPow2(size)) => NothingStarted)
    /\ (size > 0 /\ ~IsPow2(size))
          ~> (aborted /\ \A r \in Ranks : pc[r] = "aborted")

C6_Witness ==
    size = 3 /\ aborted /\ \A r \in Ranks : pc[r] = "aborted"

\* the number of the round (k, j) in the schedule k = 2, 4, ...; j = k/2, ..., 1
RoundNumber(kk, jj) ==
    (Log2(kk) * (Log2(kk) - 1)) \div 2 + (Log2(kk) - Log2(jj))

\* C7: every process performs log2(P)*(log2(P)+1)/2 exchange rounds, one per
\* pair (k, j) of the schedule, whatever n and the input are.
C7_RoundCount ==
    \A r \in Ranks :
        /\ InRound(r) => rounds[r] = RoundNumber(k[r], j[r])
        /\ PastNetwork(r) => rounds[r] = (Log2(size) * (Log2(size) + 1)) \div 2

C7_Witness ==
    size = 4 /\ \A r \in Ranks : pc[r] = "done" /\ rounds[r] = 3

\* C8: the partition received in a round is the one the partner held after its
\* previous round (after its local sort, in the first round), and no process
\* starts the exchange of round t+1 before every process has completed the
\* merge-select of round t.
C8_RoundsInLockstep ==
    \A r \in Ranks :
        /\ pc[r] = "merge" =>
             /\ Len(hist[Partner(r)]) >= rounds[r]
             /\ recv_buf[r] = hist[Partner(r)][rounds[r]]
        /\ rounds[r] >= 2 => \A q \in Ranks : Len(hist[q]) >= rounds[r]

C8_Witness ==
    \E r \in Ranks :
        /\ size = 4 /\ pc[r] = "merge" /\ rounds[r] = 3
        /\ recv_buf[r] # hist[Partner(r)][1]
        /\ local[Partner(r)] # recv_buf[r]
        /\ pc[Partner(r)] = "wait_round"

C10_HalvesMakeTheMerge ==
    DOMAIN mdst = {0, 1} =>
        /\ mdst[1] \o mdst[0] = SortAsc(ma \o mb)
        /\ SortAsc(mdst[1] \o mdst[0]) = SortAsc(ma \o mb)
        /\ BagOf(mdst[1] \o mdst[0]) = BagOf(ma \o mb)

C10_Witness ==
    /\ ma = <<0, 1, 1>> /\ mb = <<0, 1, 2>>
    /\ DOMAIN mdst = {0, 1}
    /\ mdst[1] = <<0, 0, 1>> /\ mdst[0] = <<1, 1, 2>>

\* C11: with n = 8, P = 2 and the input 5,3,8,1,9,2,7,4, rank 0 holds 1,3,5,8 and
\* rank 1 holds 2,4,7,9 after the local sort; the one round is (k, j) = (2, 1),
\* with keep_low 1 at rank 0 and 0 at rank 1; the gathered array is
\* 1,2,3,4,5,7,8,9.
C11_ScenarioTwoProcesses ==
    (size = 2 /\ input = <<5, 3, 8, 1, 9, 2, 7, 4>>) =>
        /\ \A r \in Ranks :
              /\ local_size[r] \in {0, 4}
              /\ hist[r] # << >> =>
                    hist[r][1] = (IF r = 0 THEN <<1, 3, 5, 8>> ELSE <<2, 4, 7, 9>>)
              /\ rounds[r] <= 1
              /\ (pc[r] = "sendrecv" \/ InRound(r)) =>
                    /\ k[r] = 2 /\ j[r] = 1
                    /\ KeepLow(r, k[r], j[r]) = (IF r = 0 THEN 1 ELSE 0)
              /\ PastNetwork(r) =>
                    /\ rounds[r] = 1
                    /\ hist[r] = (IF r = 0
                                  THEN << <<1, 3, 5, 8>>, <<1, 2, 3, 4>> >>
                                  ELSE << <<2, 4, 7, 9>>, <<5, 7, 8, 9>> >>)
        /\ Gathered => global_arr = <<1, 2, 3, 4, 5, 7, 8, 9>>
        /\ result \in {"none", "SORTED"}

C11_Witness ==
    /\ size = 2 /\ input = <<5, 3, 8, 1, 9, 2, 7, 4>>
    /\ \A r \in Ranks : pc[r] = "done" /\ rounds[r] = 1
    /\ hist[0][1] = <<1, 3, 5, 8>> /\ hist[1][1] = <<2, 4, 7, 9>>
    /\ global_arr = <<1, 2, 3, 4, 5, 7, 8, 9>>
    /\ result = "SORTED"

\* C12: for every power-of-two P, rank and round (k, j), keep_low is the
\* keep-min decision of the textbook bitonic network on P wires at wire rank
\* in stage (k, j); with one element per rank the program's elements are the
\* wires of that network after every round, and are sorted at the end.
C12_KeepLowIsTextbookDirection ==
    /\ wpc = "exchange" =>
          \A r \in 0..(wsize - 1) : (wkeep[r] = 1) <=> RefKeepsMin(r, wk, wj)
    /\ wpc # "aborted"
    /\ wires = wref
    /\ wpc = "end" => IsAscending([i \in 1..wsize |-> wref[i - 1]])

C12_Witness ==
    /\ wpc = "exchange" /\ wsize = 8 /\ wk = 4 /\ wj = 1
    /\ wkeep = [r \in 0..7 |-> IF r \in {0, 2, 5, 7} THEN 1 ELSE 0]
    /\ wires # [r \in 0..7 |-> 0]

\* C20: for every power-of-two P, rank r and round (k, j), the partner r XOR j
\* is a rank of the communicator other than r, whose partner is r and whose
\* keep_low is the opposite: of each pair one keeps the low half and the other
\* the high half.
C20_PairsAreSymmetric ==
    wpc = "exchange" =>
        \A r \in 0..(wsize - 1) :
            /\ wpartner[r] \in 0..(wsize - 1)
            /\ wpartner[r] # r
            /\ wpartner[wpartner[r]] = r
            /\ wkeep[r] \in {0, 1}
            /\ wkeep[wpartner[r]] = 1 - wkeep[r]

C20_Witness ==
    /\ wpc = "exchange" /\ wsize = 8 /\ wk = 8 /\ wj = 2
    /\ wpartner = [r \in 0..7 |-> IF r \in {0, 1, 4, 5} THEN r + 2 ELSE r - 2]
    /\ wkeep = [r \in 0..7 |-> IF r \in {0, 1, 4, 5} THEN 1 ELSE 0]

\* C13 as stated: without the barrier at the end of each round (the loop of
\* src/Extra/bitonicMPI.c) some MPI_Sendrecv delivers a partition that is not
\* the partner's completed result of the round before; here for a run of four
\* processes that has ended.
C13_BarrierRequired ==
    (size = 4 /\ \A r \in Ranks : pc[r] = "done") => stale

\* C13, amended: without the barrier a process does start the exchange of the
\* next round before other processes have completed the current one, but the
\* partition every MPI_Sendrecv delivers is the one the partner held after
\* completing its previous round (after its local sort, in the first round).
C13_NoBarrierStillPairsRounds ==
    /\ ~stale
    /\ \A r \in Ranks :
          pc[r] = "x_exchange" =>
              /\ Len(hist[Partner(r)]) >= rounds[r]
              /\ recv_buf[r] = hist[Partner(r)][rounds[r]]

C13_Witness ==
    /\ size = 4 /\ input = <<1, 0>>
    /\ pc[0] = "x_exchange" /\ rounds[0] = 2 /\ recv_buf[0] = hist[2][2]
    /\ pc[1] = "x_wait" /\ rounds[1] = 1 /\ Len(hist[1]) = 1

\* C14: for every power-of-two P, n > 0 and input, the array src/Extra/bitonicMPI.c
\* gathers is the one src/MPI/bitonicMPI_fixed.c gathers: the ascending
\* arrangement of the padded input, its first n elements the sorted input.
C14_ExtraSortsLikeFixed ==
    (size > 0 /\ IsPow2(size) /\ pc[0] \in {"x_finish", "done"}) =>
        /\ global_arr = SortAsc(FillGlobal(input, n, N[0]))
        /\ SubSeq(global_arr, 1, n) = SortAsc(input)

\* C15: verify_sorted(global, n) returns 1 exactly when global[i-1] <= global[i]
\* for every i with 1 <= i < n, and 0 otherwise; every array with the same first
\* n entries gets the same result (the entries at index >= n are not read);
\* for n = 1 the result is 1.
C15_VerifyReadsFirstN ==
    vpc = "returned" =>
        /\ vres \in {0, 1}
        /\ (vres = 1) <=> (\A i \in 1..(vn - 1) : vglobal[i] <= vglobal[i + 1])
        /\ \A g \in [1..Len(vglobal) -> VerVals] :
              (\A i \in 1..vn : g[i] = vglobal[i]) => verify_sorted(g, vn) = vres
        /\ vn = 1 => vres = 1

C15_Witness ==
    /\ vpc = "returned" /\ vn = 3
    /\ vglobal = <<0, 1, 1, 0>>
    /\ vres = 1

IsDescending(s) == \A i \in 1..(Len(s) - 1) : s[i] >= s[i + 1]

\* C16: bitonic_sort_recursive(arr, 0, m, dir) with m a power of two leaves in
\* arr a permutation of its contents, non-decreasing for dir = 1 and
\* non-increasing for dir = 0; it reads and writes indices in [0, m) only, and
\* the cell behind the array keeps its value.
C16_LocalSortContract ==
    bpc = "returned" =>
        /\ Len(bres) = bm + 1
        /\ BagOf(SubSeq(bres, 1, bm)) = BagOf(SubSeq(bmem, 1, bm))
        /\ bdir = 1 => IsAscending(SubSeq(bres, 1, bm))
        /\ bdir = 0 => IsDescending(SubSeq(bres, 1, bm))
        /\ btouched \subseteq 0..(bm - 1)
        /\ bres[bm + 1] = bmem[bm + 1]

C16_Witness ==
    /\ bpc = "returned" /\ bm = 8 /\ bdir = 0
    /\ SubSeq(bmem, 1, 8) = <<0, 1, 1, 0, 1, 0, 0, 1>>
    /\ SubSeq(bres, 1, 8) = <<1, 1, 1, 1, 0, 0, 0, 0>>
    /\ btouched = 0..7

\* C17: in the parallel loop of the OpenMP bitonic_merge, iteration i accesses
\* arr[i] and arr[i + k] only and no two iterations access a common element
\* (so no two threads do: no data race); when all threads are through, the
\* array is the one the sequential loop leaves, in every interleaving.
C17_IterationsIndependent ==
    /\ \A i \in DOMAIN facc : facc[i] \subseteq {i, i + fk}
    /\ \A i1, i2 \in DOMAIN facc : i1 # i2 => facc[i1] \cap facc[i2] = {}
    /\ (fthreads > 0 /\ \A t \in DOMAIN fpc : fpc[t].at = "done") =>
          fmem = bitonic_compare_and_swap(fmem0, flow, fk, fdir)

C17_Witness ==
    /\ fthreads = 2 /\ flow = 0 /\ fk = 2 /\ fdir = 1
    /\ fmem0 = <<1, 1, 0, 0>>
    /\ fpc[0] = [i |-> 0, at |-> "swap_b"] /\ fpc[1] = [i |-> 1, at |-> "swap_a"]
    /\ fmem = <<0, 1, 0, 0>>

\* C18: in the OpenMP bitonic_sort_recursive (sections, or tasks with
\* taskwait) the first half-sort and everything it calls accesses only
\* [low, low + k), the second only [low + k, low + 2k), and the merge of the
\* whole range is not started before both half-sorts have completed.
C18_HalvesDisjointThenMerge ==
    \A path \in DOMAIN tframes :
        (tframes[path].fn = "sort" /\ tframes[path].cnt > 1) =>
            LET low == tframes[path].low
                kk == tframes[path].cnt \div 2
            IN  /\ Append(path, 1) \in DOMAIN tframes =>
                      SubAcc(Append(path, 1)) \subseteq low..(low + kk - 1)
                /\ Append(path, 2) \in DOMAIN tframes =>
                      SubAcc(Append(path, 2)) \subseteq (low + kk)..(low + 2 * kk - 1)
                /\ Append(path, 3) \in DOMAIN tframes =>
                      SubDone(Append(path, 1)) /\ SubDone(Append(path, 2))

C18_Witness ==
    /\ tmode = "tasks" /\ tcut = 0
    /\ Len(tmem0) = 4
    /\ <<3>> \in DOMAIN tframes /\ tframes[<<3>>].pc = "loop"
    /\ SubAcc(<<1>>) = {0, 1} /\ SubAcc(<<2>>) = {2, 3}
    /\ tmem # tmem0

\* C19: whatever the thresholds and however the tasks interleave, the task
\* based sort returns only when every call has returned, and then the array
\* is the one the serial bitonic_sort_recursive produces.
C19_TasksSortLikeSerial ==
    (tmode = "tasks" /\ Returned(<< >>)) =>
        /\ SubDone(<< >>)
        /\ tmem = bitonic_sort_recursive(tmem0, 0, Len(tmem0), 1)

C19_Witness ==
    /\ tmode = "tasks" /\ tcut = 1 /\ tloop = 0
    /\ Returned(<< >>)
    /\ tmem0 = <<1, 0, 1, 0>>
    /\ tmem = <<0, 0, 1, 1>>

\* the partitions of all ranks, in rank order, as recorded at point t of the
\* history (1: after the local sort, t + 1: after exchange round t)
PartitionsAt(t) == Concat([r \in Ranks |-> hist[r][t]], 0, size)

\* the n input values followed by N - n copies of INT_MAX
PaddedInput == input \o [i \in 1..(N[0] - n) |-> INT_MAX]

\* C21: after the local sort and after every exchange round that all
\* processes have completed, the partitions together hold exactly the values
\* of the padded input, each as often as the padded input does.
C21_RoundsKeepTheMultiset ==
    \A t \in 1..Len(hist[0]) :
        (\A r \in Ranks : Len(hist[r]) >= t) =>
            BagOf(PartitionsAt(t)) = BagOf(PaddedInput)

C21_Witness ==
    /\ size = 4 /\ input = <<1, 0, 1, 0>>
    /\ \A r \in Ranks : Len(hist[r]) = 4
    /\ recv_buf[0] = <<0>> /\ hist[0][3] = <<0>> /\ hist[0][4] = <<0>>
    /\ PartitionsAt(1) = <<1, 0, 1, 0>>
    /\ PartitionsAt(4) = <<0, 0, 1, 1>>

\* the point of the history at which phase k = 2^e is over: the local sort
\* and the 1 + 2 + ... + e rounds of the phases up to it
PhaseEnd(e) == 1 + (e * (e + 1)) \div 2

\* the partitions of ranks b..b+kk-1 at point t, in increasing rank order
GroupUp(t, b, kk) == Concat([r \in Ranks |-> hist[r][t]], b, b + kk)

\* the partitions of ranks b..b+kk-1 at point t, in decreasing rank order
GroupDown(t, b, kk) == Concat([i \in 0..(kk - 1) |-> hist[b + kk - 1 - i][t]], 0, kk)

\* C22: when all processes have completed the rounds of phase k, every
\* aligned group of k ranks [b, b + k) is block-sorted: its partitions put
\* together in increasing rank order are non-decreasing if (b & k) == 0, and
\* put together in decreasing rank order are non-decreasing otherwise.
C22_PhaseLeavesSortedGroups ==
    \A e \in 1..Log2(size) :
        (\A r \in Ranks : Len(hist[r]) >= PhaseEnd(e)) =>
            \A b \in {b2 \in Ranks : b2 % (2^e) = 0} :
                IF BitAnd(b, 2^e) = 0
                THEN IsAscending(GroupUp(PhaseEnd(e), b, 2^e))
                ELSE IsAscending(GroupDown(PhaseEnd(e), b, 2^e))

C22_Witness ==
    /\ size = 4 /\ input = <<1, 0, 1, 0, 0>>
    /\ \A r \in Ranks : Len(hist[r]) >= PhaseEnd(1)
    /\ hist[2][1] = <<0, INT_MAX>> /\ hist[3][1] = <<INT_MAX, INT_MAX>>
    /\ GroupUp(PhaseEnd(1), 0, 2) = <<0, 0, 1, 1>>
    /\ GroupDown(PhaseEnd(1), 2, 2) = <<0, INT_MAX, INT_MAX, INT_MAX>>

\* C23: with 32-bit int and a left shift that wraps modulo 2^32,
\* next_power_of_two(n) terminates for every n in 1..2^31-1 and returns a
\* positive power of two p with p >= n and p/2 < n.  The function is
\* deterministic, so it terminates only if its loop never stands at a value
\* of p that the shift leaves unchanged while p < n still holds; once it has
\* returned, p is the value returned.
C23_NextPowerOfTwoReturns ==
    (sn >= 1 /\ sn <= INT_MAX) =>
        /\ ~(spc = "npt" /\ NptCond(p, sn) /\ Shl1(p) = p)
        /\ spc \in {"pad", "sized", "abort"} =>
              IsPow2(p) /\ p >= sn /\ p \div 2 < sn

=============================================================================
